---- MODULE Spec2Model ----
(***************************************************************************)
(* Flood-extent engine of flood-map: the flood fill, hull builder and      *)
(* Terrain-RGB codec of src/lib/floodSimulation.ts and the tile encoder of *)
(* the DEM pipeline guide.                                                 *)
(*                                                                         *)
(* Coordinates are JavaScript numbers (IEEE-754 doubles).  The flood fill  *)
(* walks the grid by repeated `lng + lngStep` / `lat - latStep`, so a node *)
(* can be held as a double that differs by one unit in the last place from *)
(* the double the seed loops compute for the same node.  A coordinate is   *)
(* therefore modelled as a pair <<n, d>>: the double lying d units in the  *)
(* last place above `bound + n * step` as the seed loops compute it.       *)
(***************************************************************************)
EXTENDS Integers, Sequences, FiniteSets, TLC

(***************************************************************************)
(* Bounds of the model.                                                    *)
(***************************************************************************)
MaxElev == 2
MaxLevel == 3
MaxRaised == 3
MaxExtra == 2
MaxMissing == 1

(***************************************************************************)
(* generateFloodPolygons(elevationData, waterLevel, resolution): the       *)
(* resolution argument the double tables below are computed for (a grid of *)
(* 5 x 5 nodes).                                                           *)
(***************************************************************************)
resolution == 4

VARIABLES
  elevationData,  \* Map<string, number>: key -> elevation
  waterLevel,     \* argument of the running / last call
  queue,          \* pending [lng, lat] points
  flooded,        \* Set<string> of keys
  floodedCells,   \* [lng, lat] points in the order they were flooded
  features,       \* features of the returned FeatureCollection
  pc,             \* "idle" | "fill" | "done"
  order,          \* which end of the queue an iteration takes from
  callsLeft,      \* calls the caller still makes
  prevLevel,      \* waterLevel of the previous finished call (0: none)
  prevFlooded,    \* flooded set of the previous finished call
  codec,          \* one elevation on its way through the Terrain-RGB codec
  hull,           \* one call of createConvexHull on a caller's point list
  contourCall,    \* one call of createContourLines
  store,          \* state of the zustand store
  storeAction,    \* the store action called last, with its argument
  fragment,       \* one invocation of the fragment shader of OceanRiseLayer
  tooltip,        \* one rendering of ElevationTooltip
  container,      \* the MapContainer component, its map and its flood layer
  throttled       \* the MapContainer variant with the throttled store update

floodVars == <<elevationData, waterLevel, queue, flooded, floodedCells,
               features, pc, order, callsLeft, prevLevel, prevFlooded>>
storeVars == <<store, storeAction>>
uiVars == <<tooltip, container, throttled>>
vars == <<floodVars, codec, hull, contourCall, storeVars, fragment, uiVars>>

\* what the functions of one component leave alone
besideFlood == <<codec, hull, contourCall, storeVars, fragment, uiVars>>
besideCodec == <<floodVars, hull, contourCall, storeVars, fragment, uiVars>>
besideHull == <<floodVars, codec, contourCall, storeVars, fragment, uiVars>>
besideContour == <<floodVars, codec, hull, storeVars, fragment, uiVars>>
besideStore == <<floodVars, codec, hull, contourCall, fragment, uiVars>>
besideFragment == <<floodVars, codec, hull, contourCall, storeVars, uiVars>>
besideTooltip == <<floodVars, codec, hull, contourCall, storeVars, fragment,
                   container, throttled>>
\* the two MapContainer components write the store
besideContainer == <<floodVars, codec, hull, contourCall, fragment, tooltip,
                     throttled>>
besideThrottled == <<floodVars, codec, hull, contourCall, fragment, tooltip,
                     container>>

\* a component nothing has called yet
CodecIdle == codec = [phase |-> "none"]
HullIdle == hull = [phase |-> "none"]
ContourIdle == contourCall = [phase |-> "none"]
FragmentIdle == fragment = [phase |-> "none"]
TooltipIdle == tooltip = [phase |-> "none"]
ContainerIdle == container = [phase |-> "none"]
ThrottledIdle == throttled = [phase |-> "none"]
UiIdle == TooltipIdle /\ ContainerIdle /\ ThrottledIdle

\* the initial state of the store: water level in tenths of a metre, the map
\* centre in 0.0001 degrees
initialState ==
  [waterLevel     |-> 0,
   mapCenter      |-> <<-1224194, 377749>>,
   mapZoom        |-> 12,
   selectedPreset |-> "null",
   isExporting    |-> FALSE,
   legendVisible  |-> TRUE]
StoreIdle == store = initialState /\ storeAction = [type |-> "none"]

(***************************************************************************)
(* Doubles.  Comparison of two coordinates of the same axis.               *)
(***************************************************************************)
DoubleGE(a, b) == a[1] > b[1] \/ (a[1] = b[1] /\ a[2] >= b[2])
DoubleLE(a, b) == DoubleGE(b, a)

\* SFBounds (SF_ is reserved in TLA+): south = 37.7, north = 37.85, west = -122.55, east = -122.35
SFBounds ==
  [north |-> <<resolution, 0>>, south |-> <<0, 0>>,
   east  |-> <<resolution, 0>>, west  |-> <<0, 0>>]

(***************************************************************************)
(* lat + latStep and lat - latStep, latStep = (37.85 - 37.7) / 4 =         *)
(* 0.037499999999999645, rounded to nearest-even as the double addition    *)
(* does:                                                                   *)
(*   <<0, 0>> 37.7                 <<1,-1>> 37.7375                        *)
(*   <<1, 0>> 37.737500000000004   <<2,-1>> 37.775                         *)
(*   <<2, 0>> 37.775000000000006   <<3, 0>> 37.8125                        *)
(*   <<3, 1>> 37.81250000000001    <<4, 0>> 37.85                          *)
(*   <<0,-1>> 37.699999999999996   <<4, 1>> 37.85000000000001              *)
(*   <<-1,0>> 37.6625              <<5, 0>> 37.8875                        *)
(***************************************************************************)
LatAdd(v) ==
  CASE v = <<0, 0>>  -> <<1, 0>>
    [] v = <<1, -1>> -> <<2, -1>>
    [] v = <<1, 0>>  -> <<2, 0>>
    [] v = <<2, -1>> -> <<3, 0>>
    [] v = <<2, 0>>  -> <<3, 1>>
    [] v = <<3, 0>>  -> <<4, 0>>
    [] v = <<3, 1>>  -> <<4, 1>>
    [] v = <<4, 0>>  -> <<5, 0>>

LatSub(v) ==
  CASE v = <<0, 0>>  -> <<-1, 0>>
    [] v = <<1, -1>> -> <<0, -1>>
    [] v = <<1, 0>>  -> <<0, 0>>
    [] v = <<2, -1>> -> <<1, -1>>
    [] v = <<2, 0>>  -> <<1, 0>>
    [] v = <<3, 0>>  -> <<2, -1>>
    [] v = <<3, 1>>  -> <<2, 0>>
    [] v = <<4, 0>>  -> <<3, 0>>

(***************************************************************************)
(* lng + lngStep and lng - lngStep, lngStep = (-122.35 - -122.55) / 4 =    *)
(* 0.05000000000000071:                                                    *)
(*   <<0, 0>> -122.55               <<0, 1>> -122.54999999999998           *)
(*   <<1, 0>> -122.5                <<1, 1>> -122.49999999999999           *)
(*   <<2,-1>> -122.45               <<2, 0>> -122.44999999999999           *)
(*   <<3,-1>> -122.4                <<3, 0>> -122.39999999999999           *)
(*   <<4,-1>> -122.35000000000001   <<4, 0>> -122.35                       *)
(*   <<-1,0>> -122.6                <<-1,1>> -122.59999999999998           *)
(*   <<5,-1>> -122.30000000000001   <<5, 0>> -122.3                        *)
(***************************************************************************)
LngAdd(v) ==
  CASE v = <<0, 0>>  -> <<1, 0>>
    [] v = <<0, 1>>  -> <<1, 1>>
    [] v = <<1, 0>>  -> <<2, -1>>
    [] v = <<1, 1>>  -> <<2, 0>>
    [] v = <<2, -1>> -> <<3, -1>>
    [] v = <<2, 0>>  -> <<3, 0>>
    [] v = <<3, -1>> -> <<4, -1>>
    [] v = <<3, 0>>  -> <<4, 0>>
    [] v = <<4, -1>> -> <<5, -1>>
    [] v = <<4, 0>>  -> <<5, 0>>

LngSub(v) ==
  CASE v = <<0, 0>>  -> <<-1, 0>>
    [] v = <<0, 1>>  -> <<-1, 1>>
    [] v = <<1, 0>>  -> <<0, 0>>
    [] v = <<1, 1>>  -> <<0, 1>>
    [] v = <<2, -1>> -> <<1, 0>>
    [] v = <<2, 0>>  -> <<1, 1>>
    [] v = <<3, -1>> -> <<2, -1>>
    [] v = <<3, 0>>  -> <<2, 0>>
    [] v = <<4, -1>> -> <<3, -1>>
    [] v = <<4, 0>>  -> <<3, 0>>

(***************************************************************************)
(* lat.toFixed(4), lng.toFixed(4) in units of 0.0001 degree: the decimal   *)
(* rounding drops the last-place difference, 37.7375 and                   *)
(* 37.737500000000004 both print as "37.7375".                             *)
(***************************************************************************)
LatToFixed4(v) == 377000 + 375 * v[1]
LngToFixed4(v) == 500 * v[1] - 1225500

\* const key = `${lng.toFixed(4)},${lat.toFixed(4)}`
Key(p) == <<LngToFixed4(p[1]), LatToFixed4(p[2])>>

(***************************************************************************)
(* Grid nodes <<i, j>> (i: latitude index from the south, j: longitude     *)
(* index from the west) and the key a caller stores node <<i, j>> under.   *)
(***************************************************************************)
Nodes == (0..resolution) \X (0..resolution)
NodePoint(n) == <<(<<n[2], 0>>), (<<n[1], 0>>)>>
NodeKey(n) == Key(NodePoint(n))
AllKeys == {NodeKey(n) : n \in Nodes}

\* elevationData.get(key) || 0
ElevationOf(data, key) == IF key \in DOMAIN data THEN data[key] ELSE 0

(***************************************************************************)
(* Seed points, in the order the three loops push them.                    *)
(***************************************************************************)
\* a west loop that pushes SF_BOUNDS.east like the east loop
WestSeedsAtEast == [i \in 1..(resolution + 1) |-> <<SFBounds.east, (<<i - 1, 0>>)>>]

WestSeeds  == [i \in 1..(resolution + 1) |-> <<SFBounds.west, (<<i - 1, 0>>)>>]
EastSeeds  == [i \in 1..(resolution + 1) |-> <<SFBounds.east, (<<i - 1, 0>>)>>]
NorthSeeds == [j \in 1..(resolution + 1) |-> <<(<<j - 1, 0>>), SFBounds.north>>]
seedPoints == WestSeeds \o EastSeeds \o NorthSeeds

\* a fill that also floods a node exactly at the water level
IsDryAbove(elevation, level) == elevation > level

\* if (elevation >= waterLevel) continue;
IsDry(elevation, level) == elevation >= level

\* the four neighbours, in the order of the array literal
neighbors(p) ==
  << <<LngAdd(p[1]), p[2]>>, <<LngSub(p[1]), p[2]>>,
     <<p[1], LatAdd(p[2])>>, <<p[1], LatSub(p[2])>> >>

\* the bounds test guarding queue.push
InBounds(p) ==
  /\ DoubleGE(p[1], SFBounds.west)
  /\ DoubleLE(p[1], SFBounds.east)
  /\ DoubleGE(p[2], SFBounds.south)
  /\ DoubleLE(p[2], SFBounds.north)

SelectInBounds(s) == SelectSeq(s, InBounds)


(***************************************************************************)
(* createConvexHull and cross.  Points are pairs of numbers.               *)
(***************************************************************************)
cross(o, a, b) ==
  (a[1] - o[1]) * (b[2] - o[2]) - (a[2] - o[2]) * (b[1] - o[1])

\* comparator of points.sort: a[0] - b[0] || a[1] - b[1]
PointLess(a, b) == a[1] < b[1] \/ (a[1] = b[1] /\ a[2] < b[2])

RECURSIVE InsertSorted(_, _)
InsertSorted(s, p) ==
  IF s = <<>> THEN <<p>>
  ELSE IF PointLess(p, Head(s)) THEN <<p>> \o s
  ELSE <<Head(s)>> \o InsertSorted(Tail(s), p)

RECURSIVE SortPoints(_)
SortPoints(points) ==
  IF points = <<>> THEN <<>>
  ELSE InsertSorted(SortPoints(SubSeq(points, 1, Len(points) - 1)),
                    points[Len(points)])

\* a chain that pops on the opposite turn
RECURSIVE PopChainRightTurn(_, _)
PopChainRightTurn(chain, p) ==
  IF Len(chain) >= 2 /\ cross(chain[Len(chain) - 1], chain[Len(chain)], p) >= 0
  THEN PopChainRightTurn(SubSeq(chain, 1, Len(chain) - 1), p)
  ELSE chain

\* the while loop popping the chain before a push
RECURSIVE PopChain(_, _)
PopChain(chain, p) ==
  IF Len(chain) >= 2 /\ cross(chain[Len(chain) - 1], chain[Len(chain)], p) <= 0
  THEN PopChain(SubSeq(chain, 1, Len(chain) - 1), p)
  ELSE chain

RECURSIVE BuildChain(_, _)
BuildChain(points, chain) ==
  IF points = <<>> THEN chain
  ELSE BuildChain(Tail(points), Append(PopChain(chain, Head(points)), Head(points)))

Reverse(s) == [k \in 1..Len(s) |-> s[Len(s) + 1 - k]]
DropLast(s) == SubSeq(s, 1, Len(s) - 1)

createConvexHull(points) ==
  IF Len(points) < 3 THEN points
  ELSE LET sorted == SortPoints(points)
           lower  == BuildChain(sorted, <<>>)
           upper  == BuildChain(Reverse(sorted), <<>>)
       IN  DropLast(lower) \o DropLast(upper)

\* what points.sort leaves in the caller's array
SortedInPlace(points) == IF Len(points) < 3 THEN points ELSE SortPoints(points)

(***************************************************************************)
(* The numbers of a [lng, lat] point of the flood fill, in a unit that     *)
(* keeps the order of the doubles and the sign of every cross product:     *)
(* lngStep : latStep = 4 : 3 and one unit in the last place of a longitude *)
(* is two of a latitude.                                                   *)
(***************************************************************************)
PointNumber(p) == <<400 * p[1][1] + 2 * p[1][2], 300 * p[2][1] + p[2][2]>>
NumberSeq(cells) == [k \in 1..Len(cells) |-> PointNumber(cells[k])]

(***************************************************************************)
(* One iteration of `while (queue.length > 0)`, taking queue[k]            *)
(* (queue.shift() is k = 1).                                               *)
(***************************************************************************)
RemoveAt(q, k) == SubSeq(q, 1, k - 1) \o SubSeq(q, k + 1, Len(q))

\* the loop body without the test flooded.has(key)
VisitAgain(data, level, st, k) ==
  LET p    == st.queue[k]
      key  == Key(p)
      rest == RemoveAt(st.queue, k)
  IN  IF IsDry(ElevationOf(data, key), level) THEN [st EXCEPT !.queue = rest]
      ELSE [queue        |-> rest \o SelectInBounds(neighbors(p)),
            flooded      |-> st.flooded \cup {key},
            floodedCells |-> Append(st.floodedCells, p)]

Visit(data, level, st, k) ==
  LET p    == st.queue[k]
      key  == Key(p)
      rest == RemoveAt(st.queue, k)
  IN  IF key \in st.flooded THEN [st EXCEPT !.queue = rest]
      ELSE IF IsDry(ElevationOf(data, key), level) THEN [st EXCEPT !.queue = rest]
      ELSE [queue        |-> rest \o SelectInBounds(neighbors(p)),
            flooded      |-> st.flooded \cup {key},
            floodedCells |-> Append(st.floodedCells, p)]

\* which entries the queue discipline may take next
MayTake(ord, q, k) ==
  CASE ord = "fifo" -> k = 1
    [] ord = "lifo" -> k = Len(q)

\* the seed loops in another order
SeedsIn(so) ==
  CASE so = "WEN" -> WestSeeds \o EastSeeds \o NorthSeeds
    [] so = "NEW" -> NorthSeeds \o EastSeeds \o WestSeeds
    [] so = "ENW" -> EastSeeds \o NorthSeeds \o WestSeeds

(***************************************************************************)
(* Elevation data a caller can pass.                                       *)
(***************************************************************************)
KeyNode(k) == CHOOSE n \in Nodes : NodeKey(n) = k
GridOf(f) == [k \in AllKeys |-> f[KeyNode(k)]]

\* the nodes of the south-west corner whose elevation varies
Region == {n \in Nodes : (n[1] <= 1 /\ n[2] <= 2) \/ n = <<2, 0>>}

\* sea-level terrain with at most m raised nodes among the nodes R
RaisedIn(R, m) ==
  UNION {{GridOf([n \in Nodes |-> IF n \in S THEN r[n] ELSE 0]) :
            r \in [S -> 1..MaxElev]} :
         S \in {T \in SUBSET R : Cardinality(T) <= m}}
RaisedGrids(m) == RaisedIn(Region, m)

\* the two southernmost rows of the three western columns
Shore == {n \in Nodes : n[1] <= 1 /\ n[2] <= 2}

\* a sea wall on the south-west coast, at most m raised nodes behind it
SeaWall == {<<0, 0>>, <<1, 0>>, <<2, 0>>}
Hinterland == {n \in Nodes : n[1] <= 2 /\ n[2] \in 1..2}
WalledGrids(m) ==
  UNION {{GridOf([n \in Nodes |->
                    IF n \in SeaWall THEN MaxElev
                    ELSE IF n \in S THEN r[n] ELSE 0]) :
            r \in [S -> 1..MaxElev]} :
         S \in {T \in SUBSET Hinterland : Cardinality(T) <= m}}

\* elevation data lacking the entries of at most m nodes of the region
Without(data, keys) == [k \in (DOMAIN data) \ keys |-> data[k]]
NoDataGrids(m) ==
  {Without(g, {NodeKey(n) : n \in M}) :
     g \in RaisedGrids(MaxExtra),
     M \in {T \in SUBSET Region : Cardinality(T) <= m}}

\* the 5 x 5 end-to-end scenario, its first row the southern or the northern one
E2ERow(n, northFirst) == IF northFirst THEN resolution - n[1] ELSE n[1]
E2EGrid(northFirst) ==
  GridOf([n \in Nodes |->
            IF E2ERow(n, northFirst) <= 2 /\ n[2] <= 2 THEN n[2] ELSE 10])

(***************************************************************************)
(* State machine of generateFloodPolygons.                                 *)
(***************************************************************************)
FloodInit(grids, orders, calls) ==
  /\ elevationData \in grids
  /\ order \in orders
  /\ callsLeft = calls
  /\ waterLevel = 0
  /\ queue = <<>>
  /\ flooded = {}
  /\ floodedCells = <<>>
  /\ features = <<>>
  /\ pc = "idle"
  /\ prevLevel = 0
  /\ prevFlooded = {}

InitWith(grids, orders, calls) ==
  /\ FloodInit(grids, orders, calls)
  /\ CodecIdle
  /\ HullIdle
  /\ ContourIdle
  /\ StoreIdle
  /\ FragmentIdle
  /\ UiIdle

CodeOrder == [take |-> "fifo", seeds |-> "WEN"]

Init ==
  InitWith(RaisedIn(Shore, MaxRaised) \cup {E2EGrid(TRUE), E2EGrid(FALSE)},
           {CodeOrder}, 1)

\* the caller invokes generateFloodPolygons(elevationData, level, resolution)
Call ==
  /\ pc \in {"idle", "done"}
  /\ callsLeft > 0
  /\ \E level \in 1..MaxLevel :
       /\ waterLevel' = level
       /\ queue' = SeedsIn(order.seeds)
  /\ flooded' = {}
  /\ floodedCells' = <<>>
  /\ features' = <<>>
  /\ pc' = "fill"
  /\ callsLeft' = callsLeft - 1
  /\ prevLevel' = IF pc = "done" THEN waterLevel ELSE 0
  /\ prevFlooded' = IF pc = "done" THEN flooded ELSE {}
  /\ UNCHANGED <<elevationData, order, besideFlood>>

FillStep ==
  /\ pc = "fill"
  /\ queue # <<>>
  /\ \E k \in 1..Len(queue) :
       /\ MayTake(order.take, queue, k)
       /\ LET st == Visit(elevationData, waterLevel,
                          [queue |-> queue, flooded |-> flooded,
                           floodedCells |-> floodedCells], k)
          IN  /\ queue' = st.queue
              /\ flooded' = st.flooded
              /\ floodedCells' = st.floodedCells
  /\ UNCHANGED <<elevationData, waterLevel, features, pc, order, callsLeft,
                 prevLevel, prevFlooded, besideFlood>>

\* after the loop: hull of the flooded cells, one feature, return
Finish ==
  /\ pc = "fill"
  /\ queue = <<>>
  /\ features' =
       IF Len(floodedCells) > 0
       THEN << [waterLevel  |-> waterLevel,
                type        |-> "flood-area",
                coordinates |-> createConvexHull(NumberSeq(floodedCells))] >>
       ELSE <<>>
  /\ floodedCells' =
       IF Len(floodedCells) < 3 THEN floodedCells
       ELSE LET sorted == SortPoints(NumberSeq(floodedCells))
            IN  [k \in 1..Len(sorted) |->
                   CHOOSE p \in {floodedCells[m] : m \in 1..Len(floodedCells)} :
                     PointNumber(p) = sorted[k]]
  /\ pc' = "done"
  /\ UNCHANGED <<elevationData, waterLevel, queue, flooded, order, callsLeft,
                 prevLevel, prevFlooded, besideFlood>>

Next == Call \/ FillStep \/ Finish

Spec == Init /\ [][Next]_vars


(***************************************************************************)
(* Connectivity on the grid, stated on node indices.                       *)
(***************************************************************************)
SeedNodes == {n \in Nodes : n[2] = 0 \/ n[2] = resolution \/ n[1] = resolution}

Adjacent(m, n) ==
  \/ (m[1] = n[1] /\ (m[2] = n[2] + 1 \/ n[2] = m[2] + 1))
  \/ (m[2] = n[2] /\ (m[1] = n[1] + 1 \/ n[1] = m[1] + 1))

BelowWater(data, level) == {n \in Nodes : ElevationOf(data, NodeKey(n)) < level}

RECURSIVE Grow(_, _)
Grow(S, C) ==
  LET S2 == S \cup {n \in C : \E m \in S : Adjacent(m, n)}
  IN  IF S2 = S THEN S ELSE Grow(S2, C)

\* nodes joined to a seed by a 4-connected path of nodes below the water level
Connected(data, level) ==
  Grow(SeedNodes \cap BelowWater(data, level), BelowWater(data, level))

Returned == pc = "done"

\* C1: when the call returns, the flooded set holds exactly the keys of the
\* nodes joined to a west, east or north edge node by a 4-connected path of
\* nodes whose elevation is strictly below the water level.
FloodedIffConnected ==
  Returned =>
    flooded = {NodeKey(n) : n \in Connected(elevationData, waterLevel)}

\* C3: a non-seed node below the water level that no 4-connected path of
\* below-water nodes joins to a seed is not in the flooded set the call returns
\* (the set only grows during the call).
Enclosed(data, level) ==
  (BelowWater(data, level) \ SeedNodes) \ Connected(data, level)

EnclosedStaysDry ==
  Returned =>
    \A n \in Enclosed(elevationData, waterLevel) : NodeKey(n) \notin flooded

EnclosedWitness ==
  /\ Returned
  /\ Enclosed(elevationData, waterLevel) # {}
  /\ flooded # {}

\* C6: on the 5 x 5 scenario grid at water level 3 the flooded set is exactly
\* the 9 nodes of the first three columns of the first three rows, and no
\* node of the last two rows.
E2EExpected(northFirst) ==
  {NodeKey(n) : n \in {m \in Nodes : E2ERow(m, northFirst) <= 2 /\ m[2] <= 2}}

E2EFlooded ==
  \A northFirst \in BOOLEAN :
    (Returned /\ waterLevel = 3 /\ elevationData = E2EGrid(northFirst)) =>
      /\ flooded = E2EExpected(northFirst)
      /\ Cardinality(flooded) = 9
      /\ \A n \in Nodes :
           E2ERow(n, northFirst) >= 3 => NodeKey(n) \notin flooded

E2EWitness ==
  /\ Returned
  /\ waterLevel = 3
  /\ elevationData = E2EGrid(FALSE)
  /\ Cardinality(flooded) = 9


\* C11: a returned collection holds no feature whose ring has fewer than 3
\* vertices: flooded cells whose hull is degenerate give no feature.
NoDegenerateFeature ==
  Returned =>
    \A k \in 1..Len(features) : Len(features[k].coordinates) >= 3

\* C12: the ring of every feature generateFloodPolygons returns is closed,
\* its first position equal to its last.
IsClosed(ring) == ring # <<>> /\ ring[1] = ring[Len(ring)]

FloodRingsClosed ==
  Returned =>
    \A k \in 1..Len(features) :
      Len(features[k].coordinates) >= 3 => IsClosed(features[k].coordinates)


(***************************************************************************)
(* The caller raising or lowering the water level: a second call on the    *)
(* same elevation data.                                                    *)
(***************************************************************************)
InitMono == InitWith(WalledGrids(MaxExtra), {CodeOrder}, 2)
SpecMono == InitMono /\ [][Next]_vars

\* C2: for the same elevation data, a call at a water level at or above the
\* level of the previous call returns a flooded set that contains the
\* previous one.
MonotoneInLevel ==
  (Returned /\ prevLevel # 0 /\ prevLevel <= waterLevel) =>
    prevFlooded \subseteq flooded

(***************************************************************************)
(* Elevation data with unmeasured nodes.                                   *)
(***************************************************************************)
InitNoData == InitWith(NoDataGrids(MaxMissing), {CodeOrder}, 1)
SpecNoData == InitNoData /\ [][Next]_vars

Measured(data) == {n \in Nodes : NodeKey(n) \in DOMAIN data}

\* C4: a node without an entry in the elevation data is not in the flooded
\* set, and every flooded node is joined to a seed by a path of measured
\* below-water nodes (the fill does not pass through an unmeasured node).
NoDataStaysDry ==
  Returned =>
    /\ \A n \in Nodes \ Measured(elevationData) : NodeKey(n) \notin flooded
    /\ flooded \subseteq
         {NodeKey(n) :
            n \in Grow(SeedNodes \cap BelowWater(elevationData, waterLevel)
                                 \cap Measured(elevationData),
                       BelowWater(elevationData, waterLevel)
                         \cap Measured(elevationData))}

(***************************************************************************)
(* Other queue disciplines and seed orders than the code's.                *)
(***************************************************************************)
Orders == [take : {"fifo", "lifo"}, seeds : {"WEN", "NEW", "ENW"}]
InitOrder == InitWith(RaisedGrids(MaxExtra), Orders, 1)
SpecOrder == InitOrder /\ [][Next]_vars

\* the whole while loop as the code runs it
RECURSIVE FloodFill(_, _, _)
FloodFill(data, level, st) ==
  IF st.queue = <<>> THEN st
  ELSE FloodFill(data, level, Visit(data, level, st, 1))

CodeFlooded(data, level) ==
  FloodFill(data, level,
            [queue |-> seedPoints, flooded |-> {}, floodedCells |-> <<>>]).flooded

\* C5: whichever end of the queue the iterations take from and whatever order
\* the seed loops run in, the returned flooded set is the one the code's
\* first-in-first-out run returns for the same elevation data and level.
OrderIndependent ==
  Returned => flooded = CodeFlooded(elevationData, waterLevel)


(***************************************************************************)
(* Terrain-RGB codec.  Elevations are counted in centimetres, so that      *)
(* `/ 0.1` and Math.round act on numbers that are not yet on the 0.1 m     *)
(* grid; encoded values are counted in steps of 0.1 m.                     *)
(***************************************************************************)
Abs(x) == IF x < 0 THEN -x ELSE x

\* JavaScript a % n: the remainder has the sign of the dividend
JsRem(a, n) == IF a >= 0 THEN a % n ELSE -((-a) % n)

\* Math.round(shifted / 0.1): nearest integer, halves towards +Infinity
RoundTenths(shiftedCm) == (shiftedCm + 5) \div 10

\* an encoder whose green digit is not reduced modulo 65536
elevationToRGBNoWrap(elevationCm) ==
  LET shifted == elevationCm + 1000000
      scaled  == RoundTenths(shifted)
  IN  [r |-> scaled \div (256 * 256),
       g |-> scaled \div 256,
       b |-> JsRem(scaled, 256)]

elevationToRGB(elevationCm) ==
  LET shifted == elevationCm + 1000000
      scaled  == RoundTenths(shifted)
  IN  [r |-> scaled \div (256 * 256),
       g |-> JsRem(scaled, 256 * 256) \div 256,
       b |-> JsRem(scaled, 256)]

\* decodeElevation / decodeTerrainRGB, result in centimetres
decodeElevation(r, g, b) == 10 * (r * 256 * 256 + g * 256 + b) - 1000000

\* a store into the Uint8ClampedArray of generateTile
Uint8Clamped(v) == IF v < 0 THEN 0 ELSE IF v > 255 THEN 255 ELSE v

\* elevations are drawn up to MaxOffset centimetres around each anchor, the
\* exact halves of a step left out (there the double division decides)
MaxOffset == 12

\* encoded values around which elevations are drawn: the ends of the range
\* of the round-trip property, the digit carries, sea level
Anchors ==
  {0, 256, 65536, 100000, 129496, 2 * 65536, 154 * 65536, 10100000}

\* 1,667,721.5 m, the largest 24-bit value
MaxEncodableCm == 10 * (256 * 256 * 256 - 1) - 1000000

\* [-10000 m, 1,000,000 m] and [-10000 m, 1,667,721.5 m]
InRoundTripRange(cm) == -1000000 <= cm /\ cm <= 100000000
InEncodableRange(cm) == -1000000 <= cm /\ cm <= MaxEncodableCm

TestElevations ==
  {e \in {10 * (a - 100000) + h :
             a \in Anchors, h \in {d \in (-MaxOffset)..MaxOffset : d % 5 # 0 \/ d % 10 = 0}} :
     InRoundTripRange(e)}
  \cup {-2000000 + 10 * h : h \in 0..MaxOffset}
  \cup {MaxEncodableCm + 10 * h : h \in 0..MaxOffset}

TestSamples ==
  {[r |-> 128, g |-> 0, b |-> 0], [r |-> 1, g |-> 249, b |-> 216],
   [r |-> 0, g |-> 0, b |-> 0], [r |-> 255, g |-> 255, b |-> 255]}

\* no flood computation going on
FloodIdle == FloodInit({<<>>}, {CodeOrder}, 0)

InitCodec ==
  /\ FloodIdle
  /\ HullIdle
  /\ ContourIdle
  /\ StoreIdle
  /\ FragmentIdle
  /\ UiIdle
  /\ \/ \E e \in TestElevations :
          codec = [phase |-> "elevation", elevation |-> e]
     \/ \E px \in TestSamples :
          codec = [phase |-> "stored", pixel |-> px]

\* const { r, g, b } = elevationToRGB(elevation): the call returns a triple,
\* there is no throw in the function
Encode ==
  /\ codec.phase = "elevation"
  /\ codec' = [phase |-> "encoded", elevation |-> codec.elevation,
               outcome |-> "returned",
               rgb |-> elevationToRGB(codec.elevation)]
  /\ UNCHANGED besideCodec

\* pixels[i * 3] = r; pixels[i * 3 + 1] = g; pixels[i * 3 + 2] = b
Store ==
  /\ codec.phase = "encoded"
  /\ codec' = [phase |-> "stored", elevation |-> codec.elevation,
               outcome |-> codec.outcome, rgb |-> codec.rgb,
               pixel |-> [r |-> Uint8Clamped(codec.rgb.r),
                          g |-> Uint8Clamped(codec.rgb.g),
                          b |-> Uint8Clamped(codec.rgb.b)]]
  /\ UNCHANGED besideCodec

\* a reader of the tile decodes the pixel
Decode ==
  /\ codec.phase = "stored"
  /\ codec' = [codec EXCEPT !.phase = "decoded"] @@
              [decoded |-> decodeElevation(codec.pixel.r, codec.pixel.g,
                                           codec.pixel.b)]
  /\ UNCHANGED besideCodec

NextCodec == Encode \/ Store \/ Decode
SpecCodec == InitCodec /\ [][NextCodec]_vars

Encoded == codec.phase \in {"encoded", "stored", "decoded"} /\ "rgb" \in DOMAIN codec
RoundTripped == codec.phase = "decoded" /\ "rgb" \in DOMAIN codec

\* C7: for every elevation of [-10000 m, 1,000,000 m] on the 0.1 m grid the
\* encoder's r, g and b lie in 0..255 and decoding them gives a value within
\* 0.05 m of the elevation.
CodecRoundTrip ==
  /\ (Encoded /\ InRoundTripRange(codec.elevation) /\ codec.elevation % 10 = 0) =>
       /\ codec.rgb.r \in 0..255 /\ codec.rgb.g \in 0..255 /\ codec.rgb.b \in 0..255
       /\ Abs(decodeElevation(codec.rgb.r, codec.rgb.g, codec.rgb.b)
                - codec.elevation) <= 5
  /\ (RoundTripped /\ InRoundTripRange(codec.elevation) /\ codec.elevation % 10 = 0) =>
       Abs(codec.decoded - codec.elevation) <= 5

CodecRoundTripWitness ==
  /\ RoundTripped
  /\ codec.elevation = 100000000
  /\ codec.rgb.r > 0 /\ codec.rgb.g > 0

\* C8: encoding an elevation outside [-10000 m, 1,667,721.5 m] fails with
\* OutOfRange and returns no triple.
EncodeRejectsOutOfRange ==
  (Encoded /\ ~InEncodableRange(codec.elevation)) =>
    codec.outcome = "OutOfRange"

\* C9: decoding the sample (r = 128, g = 0, b = 0) yields 2949.6 m to one
\* decimal place.
DecodeDocumentedExample ==
  (codec.phase = "decoded" /\ codec.pixel = [r |-> 128, g |-> 0, b |-> 0]) =>
    Abs(codec.decoded - 294960) < 5


(***************************************************************************)
(* Termination of the flood fill: the while loop runs to its end, whichever *)
(* end of the queue an iteration takes from.                               *)
(***************************************************************************)
MaxBumps == 1

\* sea-level terrain with at most m shore nodes that no water level reaches
BumpedGrids(m) ==
  {GridOf([n \in Nodes |-> IF n \in S THEN MaxLevel ELSE 0]) :
     S \in {T \in SUBSET Shore : Cardinality(T) <= m}}

InitFill ==
  InitWith(BumpedGrids(MaxBumps),
           {[take |-> t, seeds |-> "WEN"] : t \in {"fifo", "lifo"}}, 1)
\* the loop is synchronous code: while an iteration is possible, one is taken
SpecFill == InitFill /\ [][Next]_vars /\ WF_vars(FillStep)

\* C28: each node is added to the flooded set and to floodedCells at most
\* once, the queue never holds more than the seeds and four in-bounds
\* neighbours per flooded node, and the loop ends: in a call that has
\* started the queue becomes empty.
FillBounded ==
  /\ flooded \subseteq AllKeys
  /\ Cardinality(flooded) = Len(floodedCells)
  /\ \A a, b \in 1..Len(floodedCells) :
       a # b => Key(floodedCells[a]) # Key(floodedCells[b])
  /\ Len(queue) <= Len(seedPoints) + 4 * Len(floodedCells)
  /\ \A k \in 1..Len(queue) : InBounds(queue[k])

FillTerminates == [](FillBounded) /\ ((pc = "fill") ~> (queue = <<>>))

FillTerminatesWitness ==
  /\ pc = "done"
  /\ order.take = "lifo"
  /\ Len(floodedCells) > resolution * resolution
  /\ Len(floodedCells) < Cardinality(Nodes)


(***************************************************************************)
(* createConvexHull on a caller's point list.                              *)
(***************************************************************************)
MaxPoints == 4
MaxCoord == 2

Lattice == (0..MaxCoord) \X (0..MaxCoord)

\* the caller's lists: at most MaxPoints lattice points in ascending,
\* descending or rotated order, possibly with the first point repeated
RECURSIVE Ascending(_)
Ascending(S) ==
  IF S = {} THEN <<>>
  ELSE LET p == CHOOSE a \in S : \A b \in S : a = b \/ PointLess(a, b)
       IN  <<p>> \o Ascending(S \ {p})
Rotate(s) == IF s = <<>> THEN s ELSE Tail(s) \o <<Head(s)>>
Arrangements(s) == {s, Reverse(s), Rotate(s), Rotate(Reverse(s))}
WithRepeat(s) ==
  IF Len(s) \in 1..(MaxPoints - 1) THEN {s, s \o <<s[1]>>} ELSE {s}
PointLists ==
  UNION {UNION {WithRepeat(a) : a \in Arrangements(Ascending(S))} :
         S \in {T \in SUBSET Lattice : Cardinality(T) <= MaxPoints}}

InitHull ==
  /\ FloodIdle
  /\ CodecIdle
  /\ ContourIdle
  /\ StoreIdle
  /\ FragmentIdle
  /\ UiIdle
  /\ \E pts \in PointLists : hull = [phase |-> "called", points |-> pts]

\* const hull = createConvexHull(points): the ring, and the caller's array
\* as points.sort leaves it
HullCall ==
  /\ hull.phase = "called"
  /\ hull' = [phase  |-> "returned",
              input  |-> hull.points,
              points |-> SortedInPlace(hull.points),
              ring   |-> createConvexHull(hull.points)]
  /\ UNCHANGED besideHull

NextHull == HullCall
SpecHull == InitHull /\ [][NextHull]_vars

RingNext(ring, k) == ring[(k % Len(ring)) + 1]

\* C10: no input point lies strictly on the outer (right-hand) side of an
\* edge between two cyclically consecutive vertices of the returned ring.
HullContainsInput ==
  hull.phase = "returned" =>
    \A m \in 1..Len(hull.input) : \A k \in 1..Len(hull.ring) :
      cross(hull.ring[k], RingNext(hull.ring, k), hull.input[m]) >= 0

HullContainsWitness ==
  /\ hull.phase = "returned"
  /\ Len(hull.ring) >= 3
  /\ \E m \in 1..Len(hull.input) :
       \A k \in 1..Len(hull.ring) :
         cross(hull.ring[k], RingNext(hull.ring, k), hull.input[m]) > 0

\* C27: after createConvexHull returns, the caller's point list holds the
\* same points in the same order as before the call.
HullKeepsInput ==
  hull.phase = "returned" => hull.points = hull.input


(***************************************************************************)
(* createContourLines, marchingSquares and traceContour.                   *)
(***************************************************************************)
\* `${lng},${lat}` of the grid loop's doubles: the text of a double names it
contourKey(n) == NodePoint(n)

\* grid[i][j] = elevationData.get(key) || 0
BuildGrid(data) ==
  [n \in Nodes |->
     IF contourKey(n) \in DOMAIN data THEN data[contourKey(n)] ELSE 0]

\* grid[i]?.[j] || 0
GridAt(grid, i, j) == IF <<i, j>> \in DOMAIN grid THEN grid[<<i, j>>] ELSE 0

\* corner values of cell (i, j)
Corners(grid, i, j) ==
  [tl |-> GridAt(grid, i, j),     tr |-> GridAt(grid, i, j + 1),
   bl |-> GridAt(grid, i + 1, j), br |-> GridAt(grid, i + 1, j + 1)]

Bit(cond, b) == IF cond THEN b ELSE 0
caseValue(c, threshold) ==
  Bit(c.tl < threshold, 1) + Bit(c.tr < threshold, 2)
    + Bit(c.br < threshold, 4) + Bit(c.bl < threshold, 8)

\* coordinates are counted in 1/Scale of a grid step from the south-west
\* corner; every difference of two elevations divides Scale
RECURSIVE Factorial(_)
Factorial(n) == IF n <= 1 THEN 1 ELSE n * Factorial(n - 1)
Scale == Factorial(MaxElev)

\* t = threshold / (b - a), times Scale: the first corner's value forgotten
InterpolateFromZero(a, b, threshold) ==
  IF b > a THEN (threshold * Scale) \div (b - a)
  ELSE (0 - threshold * Scale) \div (a - b)

\* t = (threshold - a) / (b - a), times Scale
Interpolate(a, b, threshold) ==
  IF b > a THEN ((threshold - a) * Scale) \div (b - a)
  ELSE ((a - threshold) * Scale) \div (a - b)

\* the points one iteration of traceContour pushes for cell (i, j)
EdgeCrossings(grid, threshold, i, j) ==
  LET c   == Corners(grid, i, j)
      lat == Scale * i
      lng == Scale * j
      top    == IF (c.tl < threshold) # (c.tr < threshold)
                THEN << <<lng + Interpolate(c.tl, c.tr, threshold), lat>> >>
                ELSE <<>>
      right  == IF (c.tr < threshold) # (c.br < threshold)
                THEN << <<lng + Scale,
                          lat + Interpolate(c.tr, c.br, threshold)>> >>
                ELSE <<>>
      bottom == IF (c.br < threshold) # (c.bl < threshold)
                THEN << <<lng + (Scale - Interpolate(c.br, c.bl, threshold)),
                          lat + Scale>> >>
                ELSE <<>>
      left   == IF (c.bl < threshold) # (c.tl < threshold)
                THEN << <<lng,
                          lat + (Scale - Interpolate(c.bl, c.tl, threshold))>> >>
                ELSE <<>>
  IN  top \o right \o bottom \o left

\* elevation data keyed as createContourLines reads it: sea-level terrain with
\* at most MaxExtra raised shore nodes, on a grid that ends m columns west of
\* the east bound
Covered(m) == {n \in Nodes : n[2] <= resolution - m}
ContourData ==
  {[k \in {contourKey(n) : n \in Covered(m)} |->
      g[NodeKey(CHOOSE n \in Nodes : contourKey(n) = k)]] :
     g \in RaisedIn(Shore, MaxExtra), m \in 0..MaxMissing}

InitContour ==
  /\ FloodIdle
  /\ CodecIdle
  /\ HullIdle
  /\ StoreIdle
  /\ FragmentIdle
  /\ UiIdle
  /\ \E data \in ContourData, level \in 1..MaxLevel :
       contourCall = [phase |-> "called", elevationData |-> data,
                      waterLevel |-> level]

noTrace == [active |-> FALSE]

\* the grid loops of createContourLines, then marchingSquares starts
ContourCall ==
  /\ contourCall.phase = "called"
  /\ contourCall' =
       [phase         |-> "scan",
        elevationData |-> contourCall.elevationData,
        waterLevel    |-> contourCall.waterLevel,
        grid          |-> BuildGrid(contourCall.elevationData),
        visited       |-> {},
        contours      |-> <<>>,
        i             |-> 0,
        j             |-> 0,
        trace         |-> noTrace,
        traces        |-> <<>>,
        features      |-> <<>>]
  /\ UNCHANGED besideContour

\* the loops of marchingSquares move on to the next cell
Advance(cc) ==
  IF cc.j + 1 < resolution THEN [cc EXCEPT !.phase = "scan", !.j = cc.j + 1]
  ELSE IF cc.i + 1 < resolution
       THEN [cc EXCEPT !.phase = "scan", !.i = cc.i + 1, !.j = 0]
       ELSE [cc EXCEPT !.phase = "scanned", !.i = cc.i + 1, !.j = 0]

\* a cell marchingSquares starts no trace from, whatever has been visited
IsSkippedIgnoringVisited(visited, key, cv) == cv = 0 \/ cv = 15

\* if (visited.has(key)) continue; ... if (caseValue === 0 || caseValue === 15)
\* continue
IsSkipped(visited, key, cv) == key \in visited \/ cv = 0 \/ cv = 15

\* one iteration of the inner loop of marchingSquares, up to the call of
\* traceContour
ScanCell ==
  /\ contourCall.phase = "scan"
  /\ LET cc == contourCall
         cv == caseValue(Corners(cc.grid, cc.i, cc.j), cc.waterLevel)
     IN  contourCall' =
           IF IsSkipped(cc.visited, <<cc.i, cc.j>>, cv)
           THEN Advance(cc)
           ELSE [cc EXCEPT !.phase = "trace",
                           !.trace = [active |-> TRUE, i |-> cc.i, j |-> cc.j,
                                      direction |-> 0, steps |-> 0,
                                      contour |-> <<>>, path |-> <<>>,
                                      broke |-> FALSE]]
  /\ UNCHANGED besideContour

\* the loop of traceContour stops before the cell it stands on
TraceLoopEnds(cc) ==
  \/ cc.trace.broke
  \/ cc.trace.steps >= resolution * resolution
  \/ (<<cc.trace.i, cc.trace.j>> \in cc.visited /\ cc.trace.steps > 0)

\* the cell traceContour moves to
MoveTo(i, j, direction) ==
  CASE direction = 0 -> <<i, j + 1>>
    [] direction = 1 -> <<i + 1, j>>
    [] direction = 2 -> <<i, j - 1>>
    [] direction = 3 -> <<i - 1, j>>

OffGrid(c) ==
  c[1] < 0 \/ c[1] >= resolution \/ c[2] < 0 \/ c[2] >= resolution

\* one iteration of the loop of traceContour
TraceStep ==
  /\ contourCall.phase = "trace"
  /\ ~TraceLoopEnds(contourCall)
  /\ LET cc == contourCall
         t  == cc.trace
         to == MoveTo(t.i, t.j, t.direction)
     IN  contourCall' =
           [cc EXCEPT
              !.visited = cc.visited \cup {<<t.i, t.j>>},
              !.trace = [t EXCEPT
                 !.contour = t.contour
                               \o EdgeCrossings(cc.grid, cc.waterLevel, t.i, t.j),
                 !.path = Append(t.path, <<t.i, t.j>>),
                 !.i = to[1],
                 !.j = to[2],
                 !.steps = IF OffGrid(to) THEN t.steps ELSE t.steps + 1,
                 !.broke = OffGrid(to)]]
  /\ UNCHANGED besideContour

\* traceContour closes and returns the contour, marchingSquares keeps it
TraceReturn ==
  /\ contourCall.phase = "trace"
  /\ TraceLoopEnds(contourCall)
  /\ LET cc == contourCall
         contour == IF Len(cc.trace.contour) > 0
                    THEN Append(cc.trace.contour, cc.trace.contour[1])
                    ELSE cc.trace.contour
     IN  contourCall' =
           Advance([cc EXCEPT
              !.contours = IF Len(contour) > 0 THEN Append(cc.contours, contour)
                           ELSE cc.contours,
              !.traces = Append(cc.traces, [path |-> cc.trace.path,
                                            contour |-> contour]),
              !.trace = noTrace])
  /\ UNCHANGED besideContour

\* a contour of 3 positions or more
IsEmittedFromThree(contour) == Len(contour) > 2

\* if (contour.length > 3)
IsEmitted(contour) == Len(contour) > 3

RECURSIVE ContourFeatures(_, _)
ContourFeatures(contours, level) ==
  IF contours = <<>> THEN <<>>
  ELSE (IF IsEmitted(Head(contours))
        THEN << [elevation   |-> level,
                 type        |-> "flood-boundary",
                 coordinates |-> Head(contours)] >>
        ELSE <<>>) \o ContourFeatures(Tail(contours), level)

\* createContourLines turns the contours into features and returns
ContourFinish ==
  /\ contourCall.phase = "scanned"
  /\ contourCall' =
       [contourCall EXCEPT
          !.phase = "returned",
          !.features = ContourFeatures(contourCall.contours,
                                       contourCall.waterLevel)]
  /\ UNCHANGED besideContour

NextContour ==
  ContourCall \/ ScanCell \/ TraceStep \/ TraceReturn \/ ContourFinish
SpecContour == InitContour /\ [][NextContour]_vars

Scanning == contourCall.phase \in {"scan", "trace", "scanned", "returned"}
ContourReturned == contourCall.phase = "returned"
Range(q) == {q[k] : k \in 1..Len(q)}
Cells == (0..(resolution - 1)) \X (0..(resolution - 1))
IsCrossing(cc, c) ==
  caseValue(Corners(cc.grid, c[1], c[2]), cc.waterLevel) \notin {0, 15}

\* C13: every contour marchingSquares holds is closed or had 3 points before
\* the closing point was appended, and every contour createContourLines
\* emits as a polygon has at least 3 points besides the closing point.
ContoursWellFormed ==
  /\ Scanning =>
       \A k \in 1..Len(contourCall.contours) :
         \/ IsClosed(contourCall.contours[k])
         \/ Len(contourCall.contours[k]) - 1 >= 3
  /\ ContourReturned =>
       \A k \in 1..Len(contourCall.features) :
         /\ IsClosed(contourCall.features[k].coordinates)
         /\ Len(contourCall.features[k].coordinates) - 1 >= 3

ContoursWellFormedWitness ==
  /\ ContourReturned
  /\ Len(contourCall.features) > 0
  /\ \E k \in 1..Len(contourCall.contours) : Len(contourCall.contours[k]) = 3

\* C14: every feature createContourLines returns for water level L carries
\* a waterLevel property equal to L.
ContourFeaturesCarryLevel ==
  ContourReturned =>
    \A k \in 1..Len(contourCall.features) :
      /\ "waterLevel" \in DOMAIN contourCall.features[k]
      /\ contourCall.features[k].waterLevel = contourCall.waterLevel

\* C15: the lookup of a grid position the elevation data does not cover
\* yields no elevation value.
LookupOutsideFails ==
  Scanning =>
    \A n \in Nodes :
      contourKey(n) \notin DOMAIN contourCall.elevationData =>
        n \notin DOMAIN contourCall.grid

\* twice the signed area of a closed contour
RECURSIVE Shoelace(_, _)
Shoelace(contour, k) ==
  IF k >= Len(contour) THEN 0
  ELSE contour[k][1] * contour[k + 1][2] - contour[k + 1][1] * contour[k][2]
         + Shoelace(contour, k + 1)
SignedArea2(contour) == Shoelace(contour, 1)

\* C18: the contours one call of marchingSquares returns all wind the same
\* way: no two of them have signed areas of opposite sign.
SameWinding ==
  Scanning =>
    \A a, b \in 1..Len(contourCall.contours) :
      SignedArea2(contourCall.contours[a])
        * SignedArea2(contourCall.contours[b]) >= 0

\* C19: a trace walks only through crossing cells, and each of its steps
\* leaves a cell across an edge that the contour crosses.
CrossesEdgeTo(cc, c, d) ==
  LET k == Corners(cc.grid, c[1], c[2])
      t == cc.waterLevel
  IN  CASE d = <<c[1], c[2] + 1>> -> (k.tr < t) # (k.br < t)
        [] d = <<c[1] + 1, c[2]>> -> (k.br < t) # (k.bl < t)
        [] d = <<c[1], c[2] - 1>> -> (k.bl < t) # (k.tl < t)
        [] d = <<c[1] - 1, c[2]>> -> (k.tl < t) # (k.tr < t)
        [] OTHER -> FALSE

PathFollowsContour(cc, path) ==
  /\ \A k \in 1..Len(path) : IsCrossing(cc, path[k])
  /\ \A k \in 1..(Len(path) - 1) : CrossesEdgeTo(cc, path[k], path[k + 1])

TraceFollowsContour ==
  Scanning =>
    /\ \A k \in 1..Len(contourCall.traces) :
         PathFollowsContour(contourCall, contourCall.traces[k].path)
    /\ contourCall.trace.active =>
         PathFollowsContour(contourCall, contourCall.trace.path)

\* C20: no cell is visited by two traces or twice by one, and every crossing
\* cell has its edge-crossing points in the contour of exactly one trace, a
\* contour that marchingSquares returns.
Visits(cc, c) ==
  {<<k, m>> \in (1..Len(cc.traces)) \X (1..(resolution * resolution)) :
     m <= Len(cc.traces[k].path) /\ cc.traces[k].path[m] = c}

EachCellInOneContour ==
  /\ Scanning =>
       \A c \in Cells : Cardinality(Visits(contourCall, c)) <= 1
  /\ contourCall.phase \in {"scanned", "returned"} =>
       \A c \in Cells :
         IsCrossing(contourCall, c) =>
           \E v \in Visits(contourCall, c) :
             LET contour == contourCall.traces[v[1]].contour
             IN  /\ contour \in Range(contourCall.contours)
                 /\ Range(EdgeCrossings(contourCall.grid,
                                        contourCall.waterLevel, c[1], c[2]))
                      \subseteq Range(contour)

EachCellInOneContourWitness ==
  /\ ContourReturned
  /\ Len(contourCall.contours) >= 2
  /\ \E k \in 1..Len(contourCall.traces) :
       Cardinality({c \in Range(contourCall.traces[k].path) :
                      IsCrossing(contourCall, c)}) >= 2


\* C21: on every cell edge on which traceContour interpolates the two corner
\* values differ and t lies in [0, 1], and every point a trace has pushed
\* lies on an edge of a cell of its path.
Straddles(a, b, threshold) == (a < threshold) # (b < threshold)

EdgeOk(a, b, threshold) ==
  Straddles(a, b, threshold) =>
    /\ a # b
    /\ Interpolate(a, b, threshold) >= 0
    /\ Interpolate(a, b, threshold) <= Scale

OnCellEdge(p, c) ==
  LET x == p[1] - Scale * c[2]
      y == p[2] - Scale * c[1]
  IN  /\ x \in 0..Scale
      /\ y \in 0..Scale
      /\ x \in {0, Scale} \/ y \in {0, Scale}

InterpolatedOnEdge(cc, t) ==
  /\ \A k \in 1..Len(t.path) :
       LET c == Corners(cc.grid, t.path[k][1], t.path[k][2])
       IN  /\ EdgeOk(c.tl, c.tr, cc.waterLevel)
           /\ EdgeOk(c.tr, c.br, cc.waterLevel)
           /\ EdgeOk(c.br, c.bl, cc.waterLevel)
           /\ EdgeOk(c.bl, c.tl, cc.waterLevel)
  /\ \A p \in Range(t.contour) : \E k \in 1..Len(t.path) : OnCellEdge(p, t.path[k])

ContourPointsOnEdges ==
  Scanning =>
    /\ \A k \in 1..Len(contourCall.traces) :
         InterpolatedOnEdge(contourCall, contourCall.traces[k])
    /\ contourCall.trace.active =>
         InterpolatedOnEdge(contourCall, contourCall.trace)

ContourPointsOnEdgesWitness ==
  /\ ContourReturned
  /\ \E k \in 1..Len(contourCall.contours) :
       \E p, q \in Range(contourCall.contours[k]) :
         /\ p[1] % Scale # 0
         /\ q[1] % Scale = 0 /\ q[2] % Scale = 0


(***************************************************************************)
(* The store: water level in tenths of a metre.                            *)
(***************************************************************************)
MaxOver == 2

Min(a, b) == IF a <= b THEN a ELSE b
Max(a, b) == IF a >= b THEN a ELSE b

\* set({ waterLevel: level }), the setter without the clamp
Unclamped(level) == level

\* Math.max(-10, Math.min(30, level))
Clamped(level) == Max(-100, Min(300, level))

\* levels the sliders and buttons pass, and half-metre steps around the limits
LevelInputs ==
  {-5, 0, 10, 50, 630, 2000}
    \cup {-100 + 5 * k : k \in (-MaxOver)..MaxOver}
    \cup {300 + 5 * k : k \in (-MaxOver)..MaxOver}
MapViews == {<<initialState.mapCenter, 12>>, <<<<-1224000, 377800>>, 13>>}
Presets == {"null", "low-tide", "plus-5"}

InitStore ==
  /\ FloodIdle
  /\ CodecIdle
  /\ HullIdle
  /\ ContourIdle
  /\ FragmentIdle
  /\ StoreIdle
  /\ UiIdle

setWaterLevel ==
  /\ \E level \in LevelInputs :
       /\ store' = [store EXCEPT !.waterLevel = Clamped(level)]
       /\ storeAction' = [type |-> "setWaterLevel", level |-> level]
  /\ UNCHANGED besideStore

setMapView ==
  /\ \E view \in MapViews :
       /\ store' = [store EXCEPT !.mapCenter = view[1], !.mapZoom = view[2]]
       /\ storeAction' = [type |-> "setMapView", center |-> view[1],
                          zoom |-> view[2]]
  /\ UNCHANGED besideStore

setSelectedPreset ==
  /\ \E preset \in Presets :
       /\ store' = [store EXCEPT !.selectedPreset = preset]
       /\ storeAction' = [type |-> "setSelectedPreset", preset |-> preset]
  /\ UNCHANGED besideStore

setIsExporting ==
  /\ \E exporting \in BOOLEAN :
       /\ store' = [store EXCEPT !.isExporting = exporting]
       /\ storeAction' = [type |-> "setIsExporting", exporting |-> exporting]
  /\ UNCHANGED besideStore

setLegendVisible ==
  /\ \E visible \in BOOLEAN :
       /\ store' = [store EXCEPT !.legendVisible = visible]
       /\ storeAction' = [type |-> "setLegendVisible", visible |-> visible]
  /\ UNCHANGED besideStore

NextStore ==
  \/ setWaterLevel
  \/ setMapView
  \/ setSelectedPreset
  \/ setIsExporting
  \/ setLegendVisible
SpecStore == InitStore /\ [][NextStore]_vars

ISqrt(n, top) == CHOOSE r \in 0..top : r * r <= n /\ (r + 1) * (r + 1) > n

\* 16 * distance(vec2(distFromBay, distFromSouth), vec2(cx, cy)), for a
\* distance below radius
Distance16(coord, cx, cy, radius) ==
  ISqrt(256 * ((coord[1] - cx) * (coord[1] - cx)
                 + (coord[2] - cy) * (coord[2] - cy)), 16 * radius)

\* if (dist < radius) elevation += mix(height, 0.0, dist / radius), where
\* perUnit is height / radius
HillRise(coord, cx, cy, radius, perUnit) ==
  IF (coord[1] - cx) * (coord[1] - cx) + (coord[2] - cy) * (coord[2] - cy)
       < radius * radius
  THEN (perUnit * (16 * radius - Distance16(coord, cx, cy, radius))) \div 16
  ELSE 0

getElevation(coord) ==
  LET distFromBay   == coord[1]
      distFromSouth == coord[2]
      base == IF distFromBay < 300 THEN 160 * distFromBay
              ELSE IF distFromBay > 1700 THEN 100 * (2000 - distFromBay)
              ELSE 300000 - 210 * Abs(distFromBay - 1000)
      hills == base + HillRise(coord, 1040, 700, 160, 8625)
                    + HillRise(coord, 840, 1440, 120, 4500)
                    + HillRise(coord, 760, 1560, 100, 4200)
                    + HillRise(coord, 640, 1360, 160, 3000)
      missionBay == IF distFromBay > 1500 /\ distFromSouth < 800
                    THEN (hills + 24000) \div 5
                    ELSE hills
      soma == IF /\ distFromBay > 1300 /\ distFromBay < 1700
                 /\ distFromSouth > 800 /\ distFromSouth < 1400
              THEN (2 * missionBay + 90000) \div 5
              ELSE missionBay
      sunset == IF /\ distFromBay < 800
                   /\ distFromSouth > 400 /\ distFromSouth < 1600
                THEN (3 * soma + 7 * (48000 + 240 * distFromBay)) \div 10
                ELSE soma
  IN  Max(sunset, 0)

IsBelow(elevation, level) == elevation < level

\* if (elevation > waterLevel) return false
IsAbove(elevation, level) == elevation > level

\* mix(coord, nearestWaterSource, float(i) / 20.0)
samplePoint(coord, source, i) ==
  <<(coord[1] * (20 - i) + source[1] * i) \div 20,
    (coord[2] * (20 - i) + source[2] * i) \div 20>>

\* coord.x < 0.05, coord.x > 0.95, or the central part of the north edge
InSourceBand(coord) ==
  \/ coord[1] < 100
  \/ coord[1] > 1900
  \/ coord[2] > 1900 /\ coord[1] > 600 /\ coord[1] < 1400

nearestWaterSource(coord) ==
  IF coord[1] < 1000 THEN <<0, coord[2]>> ELSE <<2000, coord[2]>>

LoopSamplesToEdge(coord) ==
  [i \in 1..20 |-> samplePoint(coord, nearestWaterSource(coord), i)]

\* the sample points of for (int i = 1; i < 20; i++), in loop order
LoopSamples(coord) ==
  [i \in 1..19 |-> samplePoint(coord, nearestWaterSource(coord), i)]

isFloodReachable(coord, level) ==
  IF IsAbove(getElevation(coord), level) THEN FALSE
  ELSE IF InSourceBand(coord) THEN TRUE
  ELSE \A i \in DOMAIN LoopSamples(coord) :
         ~IsAbove(getElevation(LoopSamples(coord)[i]), level)

\* v_texCoord of the vertex shader for a position of the quad, a_position
\* given as its offsets from the south-west corner in 1/2000 of the quad:
\* the longitude offset is divided by 122.3557 - 122.5155, a negative span
texCoord(position) == <<-position[1], position[2]>>

\* fragments of the quad, and texture coordinates of the unit square
QuadPositions == {<<100 * a, 200 * b>> : a \in 0..20, b \in 0..10}
QueryCoords == {texCoord(p) : p \in QuadPositions} \cup QuadPositions

\* u_waterLevel: whole metres up to MaxLevel, and multiples of 30 m, the
\* highest level the store passes on
WaterLevels ==
  {6000 * level : level \in 0..MaxLevel}
    \cup {6000 * 30 * level : level \in 1..MaxLevel}

InitFragment ==
  /\ FloodIdle
  /\ CodecIdle
  /\ HullIdle
  /\ ContourIdle
  /\ StoreIdle
  /\ UiIdle
  /\ \E coord \in QueryCoords, level \in WaterLevels :
       fragment = [phase |-> "input", v_texCoord |-> coord,
                   u_waterLevel |-> level]

\* void main()
FragmentMain ==
  /\ fragment.phase = "input"
  /\ fragment' =
       [phase        |-> "shaded",
        v_texCoord   |-> fragment.v_texCoord,
        u_waterLevel |-> fragment.u_waterLevel,
        elevation    |-> getElevation(fragment.v_texCoord),
        water        |-> isFloodReachable(fragment.v_texCoord,
                                          fragment.u_waterLevel),
        depth        |-> fragment.u_waterLevel
                           - getElevation(fragment.v_texCoord),
        path         |-> IF \/ IsAbove(getElevation(fragment.v_texCoord),
                                       fragment.u_waterLevel)
                            \/ InSourceBand(fragment.v_texCoord)
                         THEN <<>>
                         ELSE LoopSamples(fragment.v_texCoord)]
  /\ UNCHANGED besideFragment

NextFragment == FragmentMain
SpecFragment == InitFragment /\ [][NextFragment]_vars

\* C17: the shader and the flood fill agree on which points are below water:
\* the shader goes on to its reachability test exactly when the flood fill's
\* test elevation < waterLevel holds, and it draws no water on a point whose
\* elevation equals the water level.
ShaderTestMatchesFloodFill ==
  fragment.phase = "shaded" =>
    /\ ~IsAbove(fragment.elevation, fragment.u_waterLevel)
         <=> ~IsDry(fragment.elevation, fragment.u_waterLevel)
    /\ fragment.elevation = fragment.u_waterLevel => ~fragment.water

\* a shaded fragment at or below the water level and outside the source bands
ReachedLoop ==
  /\ fragment.phase = "shaded"
  /\ fragment.elevation <= fragment.u_waterLevel
  /\ ~(\/ fragment.v_texCoord[1] < 100
       \/ fragment.v_texCoord[1] > 1900
       \/ /\ fragment.v_texCoord[2] > 1900
          /\ fragment.v_texCoord[1] > 600
          /\ fragment.v_texCoord[1] < 1400)

\* the open-water edge nearer to the fragment: west below x = 0.5, else east
NearerEdge ==
  <<IF fragment.v_texCoord[1] < 1000 THEN 0 ELSE 2000, fragment.v_texCoord[2]>>

PathClear ==
  \A i \in 1..Len(fragment.path) :
    getElevation(fragment.path[i]) <= fragment.u_waterLevel

ShaderMonotoneInLevel ==
  (fragment.phase = "shaded" /\ fragment.water) =>
    /\ \A level \in WaterLevels :
         level >= fragment.u_waterLevel =>
           isFloodReachable(fragment.v_texCoord, level)
    /\ fragment.depth >= 0

ShaderMonotoneInLevelWitness ==
  /\ ReachedLoop
  /\ fragment.water
  /\ fragment.depth > 0
  /\ \E level \in WaterLevels : level > fragment.u_waterLevel


(***************************************************************************)
(* WaterLevelSlider: the slider and the preset buttons call the store's    *)
(* setWaterLevel.  Levels in tenths of a metre, as in the store.           *)
(***************************************************************************)
\* <Slider min={0} max={200} step={0.5} />
SliderPositions == {5 * k : k \in 0..400}

\* onClick={() => setWaterLevel(0)}, (2), (10), (50), (100), (150); (63)
PresetLevels == {0, 20, 100, 500, 1000, 1500, 630}

InitSlider == InitStore

\* handleValueChange(values): setWaterLevel(values[0])
handleValueChange ==
  /\ \E values \in SliderPositions :
       /\ store' = [store EXCEPT !.waterLevel = Clamped(values)]
       /\ storeAction' = [type |-> "setWaterLevel", level |-> values]
  /\ UNCHANGED besideStore

\* onClick of a preset button
onClick ==
  /\ \E level \in PresetLevels :
       /\ store' = [store EXCEPT !.waterLevel = Clamped(level)]
       /\ storeAction' = [type |-> "setWaterLevel", level |-> level]
  /\ UNCHANGED besideStore

NextSlider ==
  \/ handleValueChange
  \/ onClick
SpecSlider == InitSlider /\ [][NextSlider]_vars

\* C29: after the slider or a preset button has called setWaterLevel(v), the
\* store's water level, which the control displays, is v.
SliderValueStored ==
  storeAction.type = "setWaterLevel" => store.waterLevel = storeAction.level


(***************************************************************************)
(* ElevationTooltip.  Elevations and water levels in quarters of a metre,  *)
(* which doubles hold exactly; toFixed(1) rounds them to tenths.           *)
(***************************************************************************)
MaxQuarters == 24

\* x.toFixed(1) for x >= 0, in tenths: the nearest tenth, a tie going up
toFixed(quarters) == (5 * quarters + 1) \div 2

getFloodStatus(elevation, level) ==
  IF elevation <= level
  THEN [status |-> "FLOODED", amount |-> toFixed(level - elevation)]
  ELSE LET safety == elevation - level
       IN  IF safety < 8
           THEN [status |-> "AT RISK", amount |-> toFixed(safety)]
           ELSE IF safety < 20
           THEN [status |-> "LOW RISK", amount |-> toFixed(safety)]
           ELSE [status |-> "SAFE", amount |-> toFixed(safety)]

getStatusColor(elevation, level) ==
  IF elevation <= level THEN "text-red-600 font-bold"
  ELSE IF elevation - level < 8 THEN "text-orange-600 font-semibold"
  ELSE IF elevation - level < 20 THEN "text-yellow-600"
  ELSE "text-green-600"

\* the props: a hovered point's elevation and the store's water level, which
\* moves in half metres
InitTooltip ==
  /\ FloodIdle
  /\ CodecIdle
  /\ HullIdle
  /\ ContourIdle
  /\ StoreIdle
  /\ FragmentIdle
  /\ ContainerIdle
  /\ ThrottledIdle
  /\ \E elevation \in 0..MaxQuarters, halves \in 0..(MaxQuarters \div 2) :
       tooltip = [phase |-> "props", elevation |-> elevation,
                  waterLevel |-> 2 * halves]

\* ElevationTooltip({ tooltip }): the waterLevel prop is not read, the
\* status and its colour are computed against 0
ElevationTooltip ==
  /\ tooltip.phase = "props"
  /\ tooltip' = [phase      |-> "rendered",
                 elevation  |-> tooltip.elevation,
                 waterLevel |-> tooltip.waterLevel,
                 shown      |-> getFloodStatus(tooltip.elevation, 0),
                 color      |-> getStatusColor(tooltip.elevation, 0)]
  /\ UNCHANGED besideTooltip

NextTooltip == ElevationTooltip
SpecTooltip == InitTooltip /\ [][NextTooltip]_vars

\* C30: the tooltip shows FLOODED exactly when the hovered point's elevation
\* is at or below the current water level, and the depth or clearance it
\* shows is the difference between the two, to one decimal.
TooltipFollowsLevel ==
  tooltip.phase = "rendered" =>
    /\ tooltip.shown.status = "FLOODED"
         <=> tooltip.elevation <= tooltip.waterLevel
    /\ tooltip.shown.amount
         = (5 * Abs(tooltip.elevation - tooltip.waterLevel) + 1) \div 2


(***************************************************************************)
(* MapContainer: the component, its mapbox map, its custom flood layer and *)
(* the flood-areas source.  A handler runs to its end before anything else *)
(* does; an effect runs after the render that follows a store change, as a *)
(* step of its own.  The map announces every camera movement, a flyTo as   *)
(* much as a drag, with movestart and moveend.                             *)
(***************************************************************************)
\* water levels a slider sets while the component lives, in tenths of a metre
ContainerLevels == {0, 10, 50}

InitContainer ==
  /\ FloodIdle
  /\ CodecIdle
  /\ HullIdle
  /\ ContourIdle
  /\ StoreIdle
  /\ FragmentIdle
  /\ UiIdle

\* map.current.flyTo({center: mapCenter, zoom: mapZoom, duration: 1000}) and
\* the movestart handler it sets off: isUserInteracting.current = true
flyTo(c) ==
  [c EXCEPT !.moving = "flyTo",
            !.target = <<store.mapCenter, store.mapZoom>>,
            !.flyToFor = c.viewFrom,
            !.isUserInteracting = TRUE]

\* the first render and its effects, in their order: the map is created and
\* the handlers registered, closed over the waterLevel of this render; the
\* view effect finds the map and flies to the store's view; the water level
\* effect finds no flood layer
ContainerMount ==
  /\ container.phase = "none"
  /\ container' =
       flyTo([phase             |-> "mounted",
              waterLevel        |-> store.waterLevel,
              styleLoaded       |-> FALSE,
              floodLayer        |-> <<>>,
              floodAreas        |-> <<>>,
              isUserInteracting |-> FALSE,
              moving            |-> "none",
              target            |-> <<store.mapCenter, store.mapZoom>>,
              mapView           |-> <<store.mapCenter, store.mapZoom>>,
              viewFrom          |-> "initial",
              flyToFor          |-> "none",
              viewEffect        |-> FALSE,
              levelEffect       |-> FALSE])
  /\ UNCHANGED <<storeVars, besideContainer>>

\* map.current.on("style.load", ...): the layer and the source are built from
\* the waterLevel of the first render
StyleLoad ==
  /\ container.phase = "mounted"
  /\ ~container.styleLoaded
  /\ container' = [container EXCEPT !.styleLoaded = TRUE,
                                    !.floodLayer = <<container.waterLevel>>,
                                    !.floodAreas = <<container.waterLevel>>]
  /\ UNCHANGED <<storeVars, besideContainer>>

\* the user starts to drag or zoom: movestart
UserMoveStart ==
  /\ container.phase = "mounted"
  /\ container.moving = "none"
  /\ container' = [container EXCEPT !.moving = "user",
                                    !.isUserInteracting = TRUE]
  /\ UNCHANGED <<storeVars, besideContainer>>

\* the movement ends: moveend.  setMapView stores a new [lng, lat] array, so
\* the component renders again and its view effect is due
MoveEnd ==
  /\ container.phase = "mounted"
  /\ container.moving # "none"
  /\ \E view \in MapViews :
       LET reached == IF container.moving = "user" THEN view
                      ELSE container.target
       IN  IF container.isUserInteracting
           THEN /\ store' = [store EXCEPT !.mapCenter = reached[1],
                                          !.mapZoom = reached[2]]
                /\ storeAction' = [type |-> "setMapView",
                                   center |-> reached[1], zoom |-> reached[2]]
                /\ container' = [container EXCEPT !.moving = "none",
                                                  !.mapView = reached,
                                                  !.viewFrom = "moveend",
                                                  !.viewEffect = TRUE,
                                                  !.isUserInteracting = FALSE]
           ELSE /\ container' = [container EXCEPT !.moving = "none",
                                                  !.mapView = reached]
                /\ UNCHANGED storeVars
  /\ UNCHANGED besideContainer

\* useEffect(..., [mapCenter, mapZoom])
ViewEffect ==
  /\ container.phase = "mounted"
  /\ container.viewEffect
  /\ container' =
       IF ~container.isUserInteracting
       THEN flyTo([container EXCEPT !.viewEffect = FALSE])
       ELSE [container EXCEPT !.viewEffect = FALSE]
  /\ UNCHANGED <<storeVars, besideContainer>>

\* useEffect(..., [waterLevel])
LevelEffect ==
  /\ container.phase = "mounted"
  /\ container.levelEffect
  /\ container' =
       IF container.floodLayer # <<>>
       THEN [container EXCEPT !.levelEffect = FALSE,
                              !.floodLayer = <<store.waterLevel>>,
                              !.floodAreas =
                                 IF container.floodAreas # <<>>
                                 THEN <<store.waterLevel>>
                                 ELSE container.floodAreas]
       ELSE [container EXCEPT !.levelEffect = FALSE]
  /\ UNCHANGED <<storeVars, besideContainer>>

\* a slider calls setWaterLevel; a changed level renders the component again
SliderSetsLevel ==
  /\ container.phase \in {"none", "mounted"}
  /\ \E level \in ContainerLevels :
       /\ store' = [store EXCEPT !.waterLevel = Clamped(level)]
       /\ storeAction' = [type |-> "setWaterLevel", level |-> level]
       /\ container' =
            IF container.phase = "mounted" /\ Clamped(level) # store.waterLevel
            THEN [container EXCEPT !.levelEffect = TRUE]
            ELSE container
  /\ UNCHANGED besideContainer

\* setMapView called from outside the map
OutsideSetsView ==
  /\ container.phase = "mounted"
  /\ \E view \in MapViews :
       /\ store' = [store EXCEPT !.mapCenter = view[1], !.mapZoom = view[2]]
       /\ storeAction' = [type |-> "setMapView", center |-> view[1],
                          zoom |-> view[2]]
       /\ container' = [container EXCEPT !.viewFrom = "outside",
                                         !.viewEffect = TRUE]
  /\ UNCHANGED besideContainer

\* the cleanup of the mount effect: map.current.remove(); map.current = null
ContainerUnmount ==
  /\ container.phase = "mounted"
  /\ container' = [phase |-> "unmounted"]
  /\ UNCHANGED <<storeVars, besideContainer>>

NextContainer ==
  \/ ContainerMount
  \/ StyleLoad
  \/ UserMoveStart
  \/ MoveEnd
  \/ ViewEffect
  \/ LevelEffect
  \/ SliderSetsLevel
  \/ OutsideSetsView
  \/ ContainerUnmount
SpecContainer == InitContainer /\ [][NextContainer]_vars

\* C24: a view the moveend handler wrote to the store never sets off a
\* flyTo: every flyTo is for the view of the mount or for a view written
\* from outside the map.
FlyToOnlyForOutsideViews ==
  container.phase = "mounted" => container.flyToFor # "moveend"

\* C25: once style.load has been handled and the water level effect is not
\* due, the flood layer and the flood-areas source hold the store's water
\* level.
LayerFollowsStore ==
  (/\ container.phase = "mounted"
   /\ container.styleLoaded
   /\ ~container.levelEffect) =>
    /\ container.floodLayer = <<store.waterLevel>>
    /\ container.floodAreas = <<store.waterLevel>>


(***************************************************************************)
(* The MapContainer variants that write the view to the store through a    *)
(* timer.  The clock counts half timer delays (50 ms): a timer set at      *)
(* clock c is due at c + 2, and two events less than 100 ms apart are at   *)
(* most one tick apart.  A due timer runs before the clock moves on and    *)
(* before a later event is handled; the unmounted component's timers stay  *)
(* with the browser.                                                       *)
(***************************************************************************)
MaxClock == 6
MaxEvents == 3

InitThrottled ==
  /\ FloodIdle
  /\ CodecIdle
  /\ HullIdle
  /\ ContourIdle
  /\ StoreIdle
  /\ FragmentIdle
  /\ UiIdle

clearNothing(pending, handle) == pending

\* clearTimeout(updateTimeout)
clearTimeout(pending, handle) == {t \in pending : t.id # handle}

Due(c) == {t \in c.timers : t.due <= c.clock}

\* the mount effect: the map is created, let updateTimeout is declared
ThrottledMount ==
  /\ throttled.phase = "none"
  /\ throttled' = [phase         |-> "mounted",
                   clock         |-> 0,
                   timers        |-> {},
                   updateTimeout |-> 0,
                   events        |-> 0,
                   mapView       |-> <<store.mapCenter, store.mapZoom>>,
                   lastMoveEnd   |-> -1,
                   burstEvents   |-> 0,
                   burstCalls    |-> 0,
                   lastCall      |-> -1]
  /\ UNCHANGED <<storeVars, besideThrottled>>

\* map.current.on("moveend", ...): clearTimeout(updateTimeout);
\* updateTimeout = setTimeout(..., 100).  An event less than 100 ms after
\* the one before belongs to the same burst, another starts a burst.
ThrottledMoveEnd ==
  /\ throttled.phase = "mounted"
  /\ throttled.events < MaxEvents
  /\ throttled.clock + 2 <= MaxClock
  /\ Due(throttled) = {}
  /\ \E view \in MapViews :
       LET sameBurst == /\ throttled.lastMoveEnd >= 0
                        /\ throttled.clock - throttled.lastMoveEnd < 2
       IN  throttled' =
             [throttled EXCEPT
                !.mapView = view,
                !.events = @ + 1,
                !.timers = clearTimeout(@, throttled.updateTimeout)
                             \cup {[id  |-> throttled.events + 1,
                                    due |-> throttled.clock + 2]},
                !.updateTimeout = throttled.events + 1,
                !.lastMoveEnd = throttled.clock,
                !.burstEvents = IF sameBurst THEN @ + 1 ELSE 1,
                !.burstCalls = IF sameBurst THEN @ ELSE 0]
  /\ UNCHANGED <<storeVars, besideThrottled>>

\* the timer's callback: if (map.current) setMapView([center.lng,
\* center.lat], zoom)
TimerFires ==
  /\ throttled.phase \in {"mounted", "unmounted"}
  /\ \E t \in Due(throttled) :
       IF throttled.phase = "mounted"
       THEN /\ store' = [store EXCEPT !.mapCenter = throttled.mapView[1],
                                      !.mapZoom = throttled.mapView[2]]
            /\ storeAction' = [type   |-> "setMapView",
                               center |-> throttled.mapView[1],
                               zoom   |-> throttled.mapView[2]]
            /\ throttled' = [throttled EXCEPT !.timers = @ \ {t},
                                              !.burstCalls = @ + 1,
                                              !.lastCall = throttled.clock]
       ELSE /\ throttled' = [throttled EXCEPT !.timers = @ \ {t}]
            /\ UNCHANGED storeVars
  /\ UNCHANGED besideThrottled

\* 50 ms pass
Tick ==
  /\ throttled.phase \in {"mounted", "unmounted"}
  /\ throttled.clock < MaxClock
  /\ Due(throttled) = {}
  /\ throttled' = [throttled EXCEPT !.clock = @ + 1]
  /\ UNCHANGED <<storeVars, besideThrottled>>

\* the cleanup of the mount effect: map.current.remove(); map.current = null
ThrottledUnmount ==
  /\ throttled.phase = "mounted"
  /\ throttled' = [throttled EXCEPT !.phase = "unmounted"]
  /\ UNCHANGED <<storeVars, besideThrottled>>

NextThrottled ==
  \/ ThrottledMount
  \/ ThrottledMoveEnd
  \/ TimerFires
  \/ Tick
  \/ ThrottledUnmount
\* time passes, and the browser runs a timer that is due
SpecThrottled ==
  InitThrottled /\ [][NextThrottled]_vars
    /\ WF_vars(Tick) /\ WF_vars(TimerFires)

ThrottleSafe ==
  throttled.phase \in {"mounted", "unmounted"} =>
    /\ Cardinality(throttled.timers) <= 1
    /\ throttled.burstCalls <= 1
    /\ throttled.burstCalls = 1 =>
         throttled.lastCall >= throttled.lastMoveEnd + 2

=============================================================================
